---- MODULE Spec2Model ----
(***************************************************************************)
(* Model of the MedDocExtractor page component: the click handler, the     *)
(* extraction calls and the retrying fetch wrapper, as a state machine      *)
(* whose steps are the points where the JavaScript code suspends (file     *)
(* read, fetch, response.json(), timer).  The repository holds two         *)
(* versions of the page: the single-call one (Gemini reads the image,      *)
(* through fetchWithRetry) and the two-stage one of app/page.js (Vision    *)
(* OCR, then Gemini on the text, both with a plain fetch).                 *)
(***************************************************************************)
EXTENDS Integers, Sequences, FiniteSets, TLC

VARIABLES
  variant,                            \* which version of the page runs
  apiKey, file, previewUrl, statusMessage, errorMessage, rawText,
  structuredData, isLoading,          \* React state of the page
  pc, runFile, runKey, base64Content, mimeType, extractResult,
                                      \* the running handleProcessClick
  tpc, retries, i, lastError, response, request, pendingDelay, thrown,
                                      \* the running fetchWithRetry
  netCalls, inFlight, outcomes, delays, consoleLog, activeRuns
                                      \* observations of the run

uiVars == <<apiKey, file, previewUrl, statusMessage, errorMessage, rawText,
            structuredData, isLoading>>
runVars == <<pc, runFile, runKey, base64Content, mimeType, extractResult>>
transportVars == <<tpc, retries, i, lastError, response, request,
                   pendingDelay, thrown>>
obsVars == <<netCalls, inFlight, outcomes, delays, consoleLog, activeRuns>>
vars == <<variant, uiVars, runVars, transportVars, obsVars>>

----------------------------------------------------------------------------
(* Bounds *)

MaxRetries == 4

----------------------------------------------------------------------------
(* JavaScript values, as far as the code inspects them *)

Undefined == [kind |-> "undefined"]
Null == [kind |-> "null"]
Str(s) == [kind |-> "string", s |-> s]
Obj(f) == [kind |-> "object", props |-> f]
Arr(q) == [kind |-> "array", items |-> q]

Nullish(v) == v.kind \in {"undefined", "null"}

\* !v
Falsy(v) == Nullish(v) \/ (v.kind = "string" /\ v.s = "")

\* v.k on a value that is not null or undefined
Get(v, k) ==
  IF v.kind = "object" /\ k \in DOMAIN v.props THEN v.props[k] ELSE Undefined

\* v?.k
OptGet(v, k) == IF Nullish(v) THEN Undefined ELSE Get(v, k)

\* v?.[0]
OptFirst(v) ==
  IF Nullish(v) THEN Undefined
  ELSE IF v.kind = "array" /\ Len(v.items) >= 1 THEN v.items[1]
  ELSE Undefined

\* a template string / message: the sequence of its pieces; "" is << >>
NoMessage == << >>

\* an Error object: its message and the status property the code attaches
NoStatus == 0
MkError(msg, st) == [message |-> msg, status |-> st]

\* error.message || fallback , a || b on messages
MsgOr(msg, fallback) == IF msg = NoMessage THEN fallback ELSE msg

----------------------------------------------------------------------------
(* Response bodies the backend can send *)

NotJson == [json |-> FALSE]
JsonBody(v) == [json |-> TRUE, value |-> v]
Unread == [json |-> FALSE, unread |-> TRUE]

\* payload texts (candidates[0].content.parts[0].text)
GarbageText == "Sorry, I cannot read this image"
NullText == "null"
EmptyObjectText == "{}"
NoDataText == "{\"transcribedText\":\"Rx\"}"
PartialText == "{\"transcribedText\":\"Rx\",\"structuredData\":{\"diagnosis\":\"flu\"}}"
FullText == "{\"transcribedText\":\"Rx\",\"structuredData\":{\"patientInfo\":null,\"diagnosis\":\"flu\",\"prescriptions\":[],\"testResults\":[]}}"

PayloadTexts ==
  {GarbageText, NullText, EmptyObjectText, NoDataText, PartialText, FullText}

\* JSON.parse on the payload texts above: <<ok, value>>
JSONParse(text) ==
  CASE text = NullText -> <<TRUE, Null>>
    [] text = EmptyObjectText -> <<TRUE, Obj(<< >>)>>
    [] text = NoDataText -> <<TRUE, Obj([transcribedText |-> Str("Rx")])>>
    [] text = PartialText ->
         <<TRUE, Obj([transcribedText |-> Str("Rx"),
                      structuredData |-> Obj([diagnosis |-> Str("flu")])])>>
    [] text = FullText ->
         <<TRUE, Obj([transcribedText |-> Str("Rx"),
                      structuredData |->
                        Obj([patientInfo |-> Null,
                             diagnosis |-> Str("flu"),
                             prescriptions |-> Arr(<< >>),
                             testResults |-> Arr(<< >>)])])>>
    [] OTHER -> <<FALSE, Undefined>>

\* the envelope {candidates:[{content:{parts:[{text: t}]}}]}
Envelope(t) ==
  Obj([candidates |->
        Arr(<<Obj([content |-> Obj([parts |-> Arr(<<Obj([text |-> t])>>)])])>>)])

MalformedEnvelopes ==
  { Null,
    Obj(<< >>),
    Obj([candidates |-> Arr(<< >>)]),
    Obj([candidates |-> Arr(<<Obj(<< >>)>>)]),
    Obj([candidates |-> Arr(<<Obj([content |-> Obj([parts |-> Arr(<< >>)])])>>)]),
    Obj([candidates |-> Arr(<<Obj([content |-> Obj([parts |-> Arr(<<Obj(<< >>)>>)])])>>)]) }

SuccessBodies ==
  {NotJson} \cup {JsonBody(e) : e \in MalformedEnvelopes}
            \cup {JsonBody(Envelope(Str(""))) }
            \cup {JsonBody(Envelope(Str(t))) : t \in PayloadTexts}

ServerMessage == "API key not valid"

ErrorBodies ==
  { NotJson,
    JsonBody(Null),
    JsonBody(Obj(<< >>)),
    JsonBody(Obj([error |-> Obj(<< >>)])),
    JsonBody(Obj([error |-> Obj([message |-> Str("")])])),
    JsonBody(Obj([error |-> Obj([message |-> Str(ServerMessage)])])) }

OkStatuses == {200}
TransientStatuses == {429, 500, 502, 503}
PermanentStatuses == {400, 401, 403, 404}
Statuses == OkStatuses \cup TransientStatuses \cup PermanentStatuses

\* a slip in the success test: 200 itself left out
OkAbove200(st) == st > 200 /\ st <= 299

\* response.ok
Ok(st) == st >= 200 /\ st <= 299

\* the bodies a response of status st can carry (the code never reads the
\* body of a 5xx/429 response)
BodiesOf(st) ==
  IF st >= 500 \/ st = 429 THEN {Unread}
  ELSE IF Ok(st) THEN SuccessBodies
  ELSE ErrorBodies

NoResponse == [status |-> 0, body |-> Unread]

----------------------------------------------------------------------------
(* fetchWithRetry *)

DefaultRetries == 4

\* Math.random() * 1000, in whole milliseconds
JitterValues == {0, 999}

\* a slip in the backoff: 2 * i written for 2 ** i
DelayLinear(idx, jitter) == 2 * idx * 1000 + jitter

\* 2 ** i * 1000 + Math.random() * 1000
Delay(idx, jitter) == 2^idx * 1000 + jitter

\* a slip in the retryable test: 500 itself not counted as a server error
RetryableStatusAbove500(st) == st > 500 \/ st = 429

RetryableStatus(st) == st >= 500 \/ st = 429

\* the kind of outcome an attempt had, for the record of the run: the
\* taxonomy of the comments at lines 187 and 194 (5xx or 429 / other
\* non-ok / success), 0 standing for a fetch that rejected
OutcomeClass(st) ==
  IF st = 0 THEN "network"
  ELSE IF st \in 500..599 \/ st = 429 THEN "transient"
  ELSE IF st \in 200..299 THEN "success"
  ELSE "permanent"

StatusError(st) == MkError(<<"API returned status ", ToString(st)>>, st)

UnavailableMessage(st) ==
  <<"The AI service is temporarily unavailable (Error ", ToString(st),
    "). Please try again in a few moments.">>

NetworkError == MkError(<<"Failed to fetch">>, NoStatus)
SyntaxError == MkError(<<"Unexpected token in JSON">>, NoStatus)
NullTypeError == MkError(<<"Cannot read properties of null">>, NoStatus)

\* the error built from the body of a non-ok response (lines 196-199)
ApiError(body) ==
  IF ~body.json THEN SyntaxError
  ELSE IF Nullish(body.value) THEN NullTypeError
  ELSE LET m == OptGet(Get(body.value, "error"), "message")
       IN MkError(<<"API error: ",
                    IF Falsy(m) THEN "Unknown error" ELSE m.s>>, NoStatus)

\* the call: the loop is entered and the first fetch is issued
StartTransport(req, r) ==
  /\ tpc' = "fetch"
  /\ retries' = r
  /\ i' = 0
  /\ request' = req
  /\ lastError' = MkError(NoMessage, NoStatus)
  /\ response' = NoResponse
  /\ pendingDelay' = 0
  /\ thrown' = MkError(NoMessage, NoStatus)
  /\ inFlight' = inFlight + 1
  /\ outcomes' = << >>
  /\ delays' = << >>

\* a slip in the catch block: the test for an error without status is
\* missing, so every failure is retried
CatchRetryAll(error, jitter) ==
  /\ lastError' = error
  /\ IF i = retries - 1
     THEN /\ tpc' = "thrown"
          /\ thrown' = IF error.status = NoStatus THEN error
                       ELSE MkError(UnavailableMessage(error.status), NoStatus)
          /\ UNCHANGED <<pendingDelay, consoleLog>>
     ELSE /\ tpc' = "delay"
          /\ pendingDelay' = Delay(i, jitter)
          /\ UNCHANGED <<thrown, consoleLog>>

\* the catch block of the loop and what follows the loop; the retry notice
\* of lines 218-222 goes to the console and is not kept
Catch(error, jitter) ==
  /\ lastError' = error
  /\ IF error.status = NoStatus
     THEN /\ tpc' = "thrown"
          /\ thrown' = error
          /\ UNCHANGED <<pendingDelay, consoleLog>>
     ELSE IF i = retries - 1
     THEN /\ tpc' = "thrown"
          /\ thrown' = MkError(UnavailableMessage(error.status), NoStatus)
          /\ UNCHANGED <<pendingDelay, consoleLog>>
     ELSE /\ tpc' = "delay"
          /\ pendingDelay' = Delay(i, jitter)
          /\ UNCHANGED <<thrown, consoleLog>>

\* fetch resolves with a response of status st
FetchResolve(st, body, jitter) ==
  /\ tpc = "fetch"
  /\ inFlight' = inFlight - 1
  /\ outcomes' = Append(outcomes, OutcomeClass(st))
  /\ response' = [status |-> st, body |-> body]
  /\ IF RetryableStatus(st)
     THEN Catch(StatusError(st), jitter)
     ELSE IF ~Ok(st)
     THEN /\ tpc' = "errorJson"
          /\ UNCHANGED <<lastError, thrown, pendingDelay, consoleLog>>
     ELSE /\ tpc' = "returned"
          /\ UNCHANGED <<lastError, thrown, pendingDelay, consoleLog>>
  /\ UNCHANGED <<uiVars, runVars, retries, i, request, netCalls, delays,
                 activeRuns>>
  /\ UNCHANGED variant

\* fetch rejects: no response, no status
FetchReject ==
  /\ tpc = "fetch"
  /\ inFlight' = inFlight - 1
  /\ outcomes' = Append(outcomes, OutcomeClass(0))
  /\ Catch(NetworkError, 0)
  /\ UNCHANGED <<uiVars, runVars, retries, i, request, response, netCalls,
                 delays, activeRuns>>
  /\ UNCHANGED variant

\* response.json() of a non-ok response settles
ErrorJsonSettle ==
  /\ tpc = "errorJson"
  /\ Catch(ApiError(response.body), 0)
  /\ UNCHANGED <<uiVars, runVars, retries, i, request, response, netCalls,
                 inFlight, outcomes, delays, activeRuns>>
  /\ UNCHANGED variant

\* a slip in the loop: the retry timer is not tied to the attempt, it also
\* fires, and sends again, while the attempt is still unanswered
DelayElapsedRacing ==
  /\ tpc \in {"delay", "fetch"}
  /\ i + 1 < retries
  /\ i' = i + 1
  /\ tpc' = "fetch"
  /\ delays' = Append(delays, pendingDelay)
  /\ netCalls' = netCalls + 1
  /\ inFlight' = inFlight + 1
  /\ UNCHANGED <<uiVars, runVars, retries, request, lastError, response,
                 pendingDelay, thrown, outcomes, consoleLog, activeRuns>>
  /\ UNCHANGED variant

\* the backoff timer fires; the loop issues the next fetch
DelayElapsed ==
  /\ tpc = "delay"
  /\ i + 1 < retries
  /\ i' = i + 1
  /\ tpc' = "fetch"
  /\ delays' = Append(delays, pendingDelay)
  /\ netCalls' = netCalls + 1
  /\ inFlight' = inFlight + 1
  /\ UNCHANGED <<uiVars, runVars, retries, request, lastError, response,
                 pendingDelay, thrown, outcomes, consoleLog, activeRuns>>
  /\ UNCHANGED variant

\* fetchWithRetry(url, options, r) called on its own
CallFetchWithRetry(r) ==
  /\ pc = "idle"
  /\ tpc \in {"idle", "returned", "thrown"}
  /\ variant = "single"
  /\ StartTransport([api |-> "gemini", key |-> "AIza-key",
                     mime_type |-> Str("image/png"), data |-> Str("iVBO")], r)
  /\ netCalls' = 1
  /\ consoleLog' = << >>
  /\ UNCHANGED <<uiVars, runVars, activeRuns>>
  /\ UNCHANGED variant

----------------------------------------------------------------------------
(* The page: files, keys, the click handler and the extraction call *)

NoFile == Null
MkFile(name, type, bytes) ==
  [kind |-> "file", name |-> name, type |-> type, bytes |-> bytes]
EmptyFile == MkFile("empty.png", "image/png", << >>)
JpegFile == MkFile("scan.jpg", "image/jpeg", <<255, 216, 255>>)
Files == {EmptyFile, JpegFile}

ApiKeys == {"", "AIza-key"}

\* the base64 text of the files above
Base64(bytes) ==
  CASE bytes = <<255, 216, 255>> -> "/9j/"
    [] OTHER -> ""

\* reader.result of readAsDataURL, as its pieces between commas; browsers
\* differ on an empty file ("data:type;base64," or "data:")
DataUrls(f) ==
  IF f.bytes = << >>
  THEN {<<"data:" \o f.type \o ";base64", "">>, <<"data:">>}
  ELSE {<<"data:" \o f.type \o ";base64", Base64(f.bytes)>>}

\* reader.result.split(",")[1]
SplitSecond(parts) == IF Len(parts) >= 2 THEN Str(parts[2]) ELSE Undefined

NoResult == [kind |-> "none"]
Returned(text, data) ==
  [kind |-> "ok", extractedText |-> text, extractedData |-> data]
Failed(error) == [kind |-> "error", error |-> error]

InvalidStructureMessage == <<"Invalid response structure from Gemini API.">>
InvalidJsonMessage ==
  <<"Gemini API did not return valid JSON. See raw text for details.">>

\* data.candidates?.[0]?.content?.parts?.[0]?.text, data not null
ResponseText(data) ==
  OptGet(OptFirst(OptGet(OptGet(OptFirst(Get(data, "candidates")),
                                "content"), "parts")), "text")

\* what extractMedicalDataWithGemini makes of the body of a 2xx response
\* (lines 152-170)
ExtractOutcome(body) ==
  IF ~body.json THEN Failed(SyntaxError)
  ELSE IF Nullish(body.value) THEN Failed(NullTypeError)
  ELSE LET responseText == ResponseText(body.value)
       IN IF Falsy(responseText)
          THEN Failed(MkError(InvalidStructureMessage, NoStatus))
          ELSE LET parsed == JSONParse(responseText.s)
               IN IF ~parsed[1] \/ Nullish(parsed[2])
                  THEN Failed(MkError(InvalidJsonMessage, NoStatus))
                  ELSE Returned(Get(parsed[2], "transcribedText"),
                                Get(parsed[2], "structuredData"))

\* console.error in the catch around JSON.parse
ParseLog(body) ==
  IF body.json /\ ~Nullish(body.value) /\ ~Falsy(ResponseText(body.value))
     /\ ExtractOutcome(body).kind = "error"
  THEN <<<<"Failed to parse JSON from Gemini response:",
           ResponseText(body.value).s>>>>
  ELSE << >>

\* ExtractOutcome and ParseLog tabulated over the bodies a 2xx response of
\* the Gemini endpoint can carry
ExtractOutcomes == [body \in SuccessBodies |-> ExtractOutcome(body)]
ParseLogs == [body \in SuccessBodies |-> ParseLog(body)]

\* a slip in the handler: no finally block, so a failure leaves the loading
\* state and the status message as they were
FailNoFinally(error) ==
  /\ errorMessage' = MsgOr(error.message, <<"An unknown error occurred.">>)
  /\ pc' = "idle"
  /\ activeRuns' = activeRuns - 1
  /\ UNCHANGED <<apiKey, file, previewUrl, rawText, structuredData,
                 isLoading, statusMessage>>

\* the catch and finally blocks of handleProcessClick
Fail(error) ==
  /\ errorMessage' = MsgOr(error.message, <<"An unknown error occurred.">>)
  /\ isLoading' = FALSE
  /\ statusMessage' = ""
  /\ pc' = "idle"
  /\ activeRuns' = activeRuns - 1
  /\ UNCHANGED <<apiKey, file, previewUrl, rawText, structuredData>>

\* the results section is rendered: (rawText || structuredData) && !isLoading
ResultsShown == (~Falsy(rawText) \/ ~Falsy(structuredData)) /\ ~isLoading

\* a slip in the button: isLoading left out of the disabled attribute
SubmitDisabledIgnoringLoading == file = NoFile \/ apiKey = ""

\* button disabled={!file || !apiKey || isLoading}
SubmitDisabled == file = NoFile \/ apiKey = "" \/ isLoading

\* the reset of the page for a new run and the call of toBase64; only the
\* single-call version sets a status message here
StartRun ==
  /\ errorMessage' = NoMessage
  /\ rawText' = Str("")
  /\ structuredData' = Null
  /\ isLoading' = TRUE
  /\ statusMessage' = IF variant = "single" THEN "Processing document..."
                      ELSE statusMessage
  /\ pc' = "toBase64"
  /\ runFile' = file
  /\ runKey' = apiKey
  /\ base64Content' = Undefined
  /\ mimeType' = Undefined
  /\ extractResult' = NoResult
  /\ activeRuns' = activeRuns + 1
  /\ netCalls' = 0
  /\ outcomes' = << >>
  /\ delays' = << >>
  /\ consoleLog' = << >>
  /\ UNCHANGED <<apiKey, file, previewUrl, transportVars, inFlight>>

\* a slip in the handler: the check of the API key is missing
HandleProcessClickNoKeyCheck ==
  IF file = NoFile
  THEN /\ errorMessage' = <<"Please upload a file first.">>
       /\ UNCHANGED <<apiKey, file, previewUrl, statusMessage, rawText,
                      structuredData, isLoading, runVars, transportVars,
                      obsVars>>
  ELSE StartRun

\* handleProcessClick up to its first await
HandleProcessClick ==
  IF file = NoFile
  THEN /\ errorMessage' = <<"Please upload a file first.">>
       /\ UNCHANGED <<apiKey, file, previewUrl, statusMessage, rawText,
                      structuredData, isLoading, runVars, transportVars,
                      obsVars>>
  ELSE IF apiKey = ""
  THEN /\ errorMessage' = <<"Please enter your Google AI API key.">>
       /\ UNCHANGED <<apiKey, file, previewUrl, statusMessage, rawText,
                      structuredData, isLoading, runVars, transportVars,
                      obsVars>>
  ELSE StartRun

\* toBase64 resolves; extractMedicalDataWithGemini builds the request and
\* calls fetchWithRetry with the default budget
ToBase64Resolve(url) ==
  /\ variant = "single"
  /\ pc = "toBase64"
  /\ url \in DataUrls(runFile)
  /\ base64Content' = SplitSecond(url)
  /\ mimeType' = Str(runFile.type)
  /\ pc' = "fetchWithRetry"
  /\ StartTransport([api |-> "gemini", key |-> runKey,
                     mime_type |-> Str(runFile.type),
                     data |-> SplitSecond(url)], DefaultRetries)
  /\ netCalls' = netCalls + 1
  /\ UNCHANGED <<uiVars, runFile, runKey, extractResult, consoleLog,
                 activeRuns>>
  /\ UNCHANGED variant

\* the FileReader fails: toBase64 rejects with the reader's error event,
\* which has no message
ToBase64Reject ==
  /\ pc = "toBase64"
  /\ Fail(MkError(NoMessage, NoStatus))
  /\ consoleLog' = Append(consoleLog, <<"Error during processing:">>)
  /\ UNCHANGED <<runFile, runKey, base64Content, mimeType, extractResult,
                 transportVars, netCalls, inFlight, outcomes, delays>>
  /\ UNCHANGED variant

\* fetchWithRetry returned a response: response.json() is awaited
TransportReturned ==
  /\ pc = "fetchWithRetry"
  /\ tpc = "returned"
  /\ pc' = "json"
  /\ tpc' = "idle"
  /\ UNCHANGED <<uiVars, runFile, runKey, base64Content, mimeType,
                 extractResult, retries, i, lastError, response, request,
                 pendingDelay, thrown, obsVars>>
  /\ UNCHANGED variant

\* fetchWithRetry threw: the extraction call rejects and the handler's catch
\* and finally run
TransportThrown ==
  /\ pc = "fetchWithRetry"
  /\ tpc = "thrown"
  /\ tpc' = "idle"
  /\ extractResult' = Failed(thrown)
  /\ Fail(thrown)
  /\ consoleLog' = Append(consoleLog, <<"Error during processing:">>)
  /\ UNCHANGED <<runFile, runKey, base64Content, mimeType, retries, i,
                 lastError, response, request, pendingDelay, thrown,
                 netCalls, inFlight, outcomes, delays>>
  /\ UNCHANGED variant

\* response.json() of the 2xx response settles; the rest of the extraction
\* call and of the handler runs to its end
JsonSettle ==
  /\ pc = "json"
  /\ LET out == ExtractOutcomes[response.body]
     IN /\ extractResult' = out
        /\ IF out.kind = "ok"
           THEN /\ rawText' = out.extractedText
                /\ structuredData' = out.extractedData
                /\ isLoading' = FALSE
                /\ statusMessage' = ""
                /\ pc' = "idle"
                /\ activeRuns' = activeRuns - 1
                /\ consoleLog' = consoleLog
                /\ UNCHANGED <<apiKey, file, previewUrl, errorMessage>>
           ELSE /\ Fail(out.error)
                /\ consoleLog' =
                     consoleLog \o ParseLogs[response.body]
                                \o <<<<"Error during processing:">>>>
  /\ UNCHANGED <<runFile, runKey, base64Content, mimeType, transportVars,
                 netCalls, inFlight, outcomes, delays>>
  /\ UNCHANGED variant

----------------------------------------------------------------------------
(* The two-stage version (app/page.js): Vision OCR, then Gemini on the text *)

VisionText == "Rx amoxicillin 500mg"

\* an OCR reply {responses:[{textAnnotations: a}]}
VisionReply(a) == Obj([responses |-> Arr(<<Obj([textAnnotations |-> a])>>)])

VisionBodies ==
  { NotJson,
    JsonBody(Null),
    JsonBody(Obj(<< >>)),
    JsonBody(Obj([responses |-> Arr(<< >>)])),
    JsonBody(Obj([responses |-> Arr(<<Obj(<< >>)>>)])),
    JsonBody(VisionReply(Arr(<< >>))),
    JsonBody(VisionReply(Arr(<<Obj(<< >>)>>))),
    JsonBody(VisionReply(Arr(<<Obj([description |-> Str(VisionText)])>>))) }

\* the bodies a plain fetch of the given stage can receive
StageBodies(stage, st) ==
  IF ~Ok(st) THEN ErrorBodies
  ELSE IF stage = "vision" THEN VisionBodies ELSE SuccessBodies

UndefinedTypeError ==
  MkError(<<"Cannot read properties of undefined">>, NoStatus)
NoTextError ==
  MkError(<<"No text found in the document by Vision API.">>, NoStatus)

\* v[0]
First(v) ==
  IF v.kind = "array" /\ Len(v.items) >= 1 THEN v.items[1] ELSE Undefined

\* the error built from the body of a non-ok response, in both stages
StageApiError(stage, body) ==
  IF ~body.json THEN SyntaxError
  ELSE IF Nullish(body.value) THEN NullTypeError
  ELSE LET m == OptGet(Get(body.value, "error"), "message")
       IN MkError(<<IF stage = "vision" THEN "Vision API error: "
                    ELSE "Gemini API error: ",
                    IF Falsy(m) THEN "Unknown error" ELSE m.s>>, NoStatus)

Detected(text) == [kind |-> "ok", text |-> text]

\* a slip in detectTextWithVisionAPI: no throw when no text was found, the
\* missing description is returned as undefined
DetectOutcomeNoThrow(body) ==
  IF ~body.json THEN Failed(SyntaxError)
  ELSE IF Nullish(body.value) THEN Failed(NullTypeError)
  ELSE LET rs == Get(body.value, "responses")
       IN IF Nullish(rs) THEN Failed(UndefinedTypeError)
          ELSE Detected(OptGet(OptFirst(OptGet(First(rs), "textAnnotations")),
                               "description"))

\* what detectTextWithVisionAPI makes of the body of an ok response
DetectOutcome(body) ==
  IF ~body.json THEN Failed(SyntaxError)
  ELSE IF Nullish(body.value) THEN Failed(NullTypeError)
  ELSE LET rs == Get(body.value, "responses")
       IN IF Nullish(rs) THEN Failed(UndefinedTypeError)
          ELSE LET ann == OptGet(First(rs), "textAnnotations")
               IN IF Falsy(ann) \/ (ann.kind = "array" /\ ann.items = << >>)
                  THEN Failed(NoTextError)
                  ELSE IF Nullish(First(ann))
                  THEN Failed(UndefinedTypeError)
                  ELSE Detected(Get(First(ann), "description"))

Structured(value) == [kind |-> "ok", value |-> value]

\* what the two-stage extractMedicalDataWithGemini makes of the body of an ok
\* response: the parsed payload itself is returned
StructureOutcome(body) ==
  IF ~body.json THEN Failed(SyntaxError)
  ELSE IF Nullish(body.value) THEN Failed(NullTypeError)
  ELSE LET responseText == ResponseText(body.value)
       IN IF Falsy(responseText)
          THEN Failed(MkError(InvalidStructureMessage, NoStatus))
          ELSE LET parsed == JSONParse(responseText.s)
               IN IF ~parsed[1]
                  THEN Failed(MkError(InvalidJsonMessage, NoStatus))
                  ELSE Structured(parsed[2])

\* console.error in the catch around JSON.parse
StructureLog(body) ==
  IF StructureOutcome(body) = Failed(MkError(InvalidJsonMessage, NoStatus))
  THEN <<<<"Failed to parse JSON from Gemini response:",
           ResponseText(body.value).s>>>>
  ELSE << >>

\* the outcomes of the two stages tabulated over the bodies an ok response
\* of each endpoint can carry
DetectOutcomes == [body \in VisionBodies |-> DetectOutcome(body)]
StructureOutcomes == [body \in SuccessBodies |-> StructureOutcome(body)]
StructureLogs == [body \in SuccessBodies |-> StructureLog(body)]

\* a plain fetch is issued
IssueFetch(req) ==
  /\ request' = req
  /\ response' = NoResponse
  /\ netCalls' = netCalls + 1
  /\ inFlight' = inFlight + 1

\* toBase64 resolves; stage 1 is announced and the Vision call is issued
ToBase64ResolveTwoStage(url) ==
  /\ variant = "twoStage"
  /\ pc = "toBase64"
  /\ url \in DataUrls(runFile)
  /\ base64Content' = SplitSecond(url)
  /\ statusMessage' = "Step 1/2: Extracting text with Vision API..."
  /\ pc' = "visionFetch"
  /\ IssueFetch([api |-> "vision", key |-> runKey, mime_type |-> Undefined,
                 data |-> SplitSecond(url)])
  /\ UNCHANGED <<variant, apiKey, file, previewUrl, errorMessage, rawText,
                 structuredData, isLoading, runFile, runKey, mimeType,
                 extractResult, tpc, retries, i, lastError, pendingDelay,
                 thrown, outcomes, delays, consoleLog, activeRuns>>

\* the fetch of a stage resolves; response.json() is awaited, on either branch
StageFetchResolve(stage, st, body) ==
  /\ pc = stage \o "Fetch"
  /\ response' = [status |-> st, body |-> body]
  /\ inFlight' = inFlight - 1
  /\ outcomes' = Append(outcomes, OutcomeClass(st))
  /\ pc' = IF Ok(st) THEN stage \o "Json" ELSE stage \o "ErrorJson"
  /\ UNCHANGED <<variant, uiVars, runFile, runKey, base64Content, mimeType,
                 extractResult, tpc, retries, i, lastError, request,
                 pendingDelay, thrown, netCalls, delays, consoleLog,
                 activeRuns>>

\* the fetch of a stage rejects: the handler's catch and finally run
StageFetchReject(stage) ==
  /\ pc = stage \o "Fetch"
  /\ inFlight' = inFlight - 1
  /\ outcomes' = Append(outcomes, OutcomeClass(0))
  /\ extractResult' = Failed(NetworkError)
  /\ Fail(NetworkError)
  /\ consoleLog' = Append(consoleLog, <<"Error during processing:">>)
  /\ UNCHANGED <<variant, runFile, runKey, base64Content, mimeType,
                 transportVars, netCalls, delays>>

\* response.json() of a non-ok response settles: the stage throws
StageErrorJsonSettle(stage) ==
  /\ pc = stage \o "ErrorJson"
  /\ extractResult' = Failed(StageApiError(stage, response.body))
  /\ Fail(StageApiError(stage, response.body))
  /\ consoleLog' = Append(consoleLog, <<"Error during processing:">>)
  /\ UNCHANGED <<variant, runFile, runKey, base64Content, mimeType,
                 transportVars, netCalls, inFlight, outcomes, delays>>

\* response.json() of the ok Vision response settles: stage 1 ends, and on
\* success the text is stored, stage 2 announced and the Gemini call issued
VisionJsonSettle ==
  /\ pc = "visionJson"
  /\ LET out == DetectOutcomes[response.body]
     IN IF out.kind = "ok"
        THEN /\ rawText' = out.text
             /\ statusMessage' =
                  "Step 2/2: Structuring data with Gemini API..."
             /\ pc' = "geminiFetch"
             /\ IssueFetch([api |-> "gemini", key |-> runKey,
                            mime_type |-> Undefined, data |-> out.text])
             /\ UNCHANGED <<apiKey, file, previewUrl, errorMessage,
                            structuredData, isLoading, extractResult,
                            consoleLog, activeRuns>>
        ELSE /\ extractResult' = out
             /\ Fail(out.error)
             /\ consoleLog' =
                  Append(consoleLog, <<"Error during processing:">>)
             /\ UNCHANGED <<request, response, netCalls, inFlight>>
  /\ UNCHANGED <<variant, runFile, runKey, base64Content, mimeType, tpc,
                 retries, i, lastError, pendingDelay, thrown, outcomes,
                 delays>>

\* response.json() of the ok Gemini response settles: stage 2 and the
\* handler run to their end
GeminiJsonSettle ==
  /\ pc = "geminiJson"
  /\ LET out == StructureOutcomes[response.body]
     IN IF out.kind = "ok"
        THEN /\ structuredData' = out.value
             /\ extractResult' = Returned(rawText, out.value)
             /\ isLoading' = FALSE
             /\ statusMessage' = ""
             /\ pc' = "idle"
             /\ activeRuns' = activeRuns - 1
             /\ consoleLog' = consoleLog
             /\ UNCHANGED <<apiKey, file, previewUrl, errorMessage, rawText>>
        ELSE /\ extractResult' = out
             /\ Fail(out.error)
             /\ consoleLog' =
                  consoleLog \o StructureLogs[response.body]
                             \o <<<<"Error during processing:">>>>
  /\ UNCHANGED <<variant, runFile, runKey, base64Content, mimeType,
                 transportVars, netCalls, inFlight, outcomes, delays>>

Stages == {"vision", "gemini"}

----------------------------------------------------------------------------
(* Events of the page *)

\* a continuation of the handler is queued as a microtask: no event handler
\* runs before it
MicrotaskPending == pc = "fetchWithRetry" /\ tpc \in {"returned", "thrown"}

\* onChange of the key input: setApiKey(e.target.value)
SetApiKey(k) ==
  /\ ~MicrotaskPending
  /\ k # apiKey
  /\ apiKey' = k
  /\ UNCHANGED <<file, previewUrl, statusMessage, errorMessage, rawText,
                 structuredData, isLoading, runVars, transportVars, obsVars>>
  /\ UNCHANGED variant

\* handleFileChange with the file the user chose
HandleFileChange(f) ==
  /\ ~MicrotaskPending
  /\ file' = f
  /\ previewUrl' = Str("blob:" \o f.name)
  /\ UNCHANGED <<apiKey, statusMessage, errorMessage, rawText,
                 structuredData, isLoading, runVars, transportVars, obsVars>>
  /\ UNCHANGED variant

\* a click on the submit button
ClickSubmit ==
  /\ ~MicrotaskPending
  /\ ~SubmitDisabled
  /\ HandleProcessClick
  /\ UNCHANGED variant

\* handleProcessClick called as a function, past the button's disabled
\* attribute; one run is followed at a time
DirectCall ==
  /\ ~MicrotaskPending
  /\ pc = "idle" \/ file = NoFile \/ apiKey = ""
  /\ HandleProcessClick
  /\ UNCHANGED variant

----------------------------------------------------------------------------

Init ==
  /\ variant \in {"single", "twoStage"}
  /\ apiKey = ""
  /\ file = NoFile
  /\ previewUrl = Null
  /\ statusMessage = ""
  /\ errorMessage = NoMessage
  /\ rawText = Str("")
  /\ structuredData = Null
  /\ isLoading = FALSE
  /\ pc = "idle"
  /\ runFile = NoFile
  /\ runKey = ""
  /\ base64Content = Undefined
  /\ mimeType = Undefined
  /\ extractResult = NoResult
  /\ tpc = "idle"
  /\ retries = DefaultRetries
  /\ i = 0
  /\ lastError = MkError(NoMessage, NoStatus)
  /\ response = NoResponse
  /\ request = [api |-> "", key |-> "", mime_type |-> Undefined,
                data |-> Undefined]
  /\ pendingDelay = 0
  /\ thrown = MkError(NoMessage, NoStatus)
  /\ netCalls = 0
  /\ inFlight = 0
  /\ outcomes = << >>
  /\ delays = << >>
  /\ consoleLog = << >>
  /\ activeRuns = 0

TransportNext ==
  \/ \E st \in Statuses : \E body \in BodiesOf(st) : \E jitter \in JitterValues :
       FetchResolve(st, body, jitter)
  \/ FetchReject
  \/ ErrorJsonSettle
  \/ DelayElapsed

RunNext ==
  \/ \E url \in UNION {DataUrls(f) : f \in Files} : ToBase64Resolve(url)
  \/ ToBase64Reject
  \/ TransportReturned
  \/ TransportThrown
  \/ JsonSettle

TwoStageNext ==
  \/ \E url \in UNION {DataUrls(f) : f \in Files} : ToBase64ResolveTwoStage(url)
  \/ \E stage \in Stages : \E st \in Statuses :
       \E body \in StageBodies(stage, st) : StageFetchResolve(stage, st, body)
  \/ \E stage \in Stages : StageFetchReject(stage)
  \/ \E stage \in Stages : StageErrorJsonSettle(stage)
  \/ VisionJsonSettle
  \/ GeminiJsonSettle

EventNext ==
  \/ \E k \in ApiKeys : SetApiKey(k)
  \/ \E f \in Files : HandleFileChange(f)

\* the page as the user drives it
Next == EventNext \/ ClickSubmit \/ RunNext \/ TransportNext \/ TwoStageNext
Spec == Init /\ [][Next]_vars

\* a step of the run in flight; it leaves the user's inputs alone
RunStep ==
  /\ pc # "idle"
  /\ UNCHANGED <<apiKey, file, previewUrl>>
  /\ RunNext \/ TransportNext \/ TwoStageNext

\* the page when every file read, network call, body read and timer that
\* is pending eventually settles
SpecLive == Init /\ [][Next]_vars /\ WF_vars(RunStep)

\* the page with the handler also called directly
NextHandler ==
  EventNext \/ DirectCall \/ RunNext \/ TransportNext \/ TwoStageNext
SpecHandler == Init /\ [][NextHandler]_vars

\* fetchWithRetry alone, with every budget up to MaxRetries
NextTransport == (\E r \in 1..MaxRetries : CallFetchWithRetry(r)) \/ TransportNext
SpecTransport == Init /\ [][NextTransport]_vars

TypeOK ==
  /\ apiKey \in ApiKeys
  /\ isLoading \in BOOLEAN
  /\ pc \in {"idle", "toBase64", "fetchWithRetry", "json", "visionFetch",
            "visionJson", "visionErrorJson", "geminiFetch", "geminiJson",
            "geminiErrorJson"}
  /\ variant = "twoStage" => tpc = "idle"
  /\ tpc \in {"idle", "fetch", "errorJson", "delay", "returned", "thrown"}
  /\ i \in 0..(retries - 1)
  /\ netCalls \in 0..retries
  /\ activeRuns \in 0..1
  /\ inFlight \in 0..1

----------------------------------------------------------------------------
(* Properties of fetchWithRetry *)

Finished == tpc \in {"returned", "thrown"}

AllTransient(q) == \A k \in DOMAIN q : q[k] = "transient"

Last(q) == q[Len(q)]

RECURSIVE SumSeq(_)
SumSeq(q) == IF q = << >> THEN 0 ELSE q[1] + SumSeq(Tail(q))

\* C1: when every attempt of a call with budget retries >= 1 got a status
\* >= 500 or 429, the call never returns a response, makes no more than
\* retries network calls, and ends, after exactly retries calls, by throwing
\* the "temporarily unavailable" error.
C1_TransientExhaustion ==
  (outcomes # << >> /\ AllTransient(outcomes)) =>
    /\ tpc # "returned"
    /\ netCalls <= retries
    /\ Finished =>
         /\ tpc = "thrown"
         /\ netCalls = retries
         /\ Len(outcomes) = retries
         /\ Len(thrown.message) = 3
         /\ thrown.message[1] =
              "The AI service is temporarily unavailable (Error "
         /\ thrown.message[2] = ToString(response.status)

C1_Witness ==
  /\ tpc = "thrown"
  /\ retries = 3
  /\ outcomes = <<"transient", "transient", "transient">>
  /\ netCalls = 3
  /\ response.status = 500

\* C2: a non-success status that is neither >= 500 nor 429 ends the call at
\* that attempt: it is the last attempt, no network call and no delay follow
\* it, the call fails, and every attempt before it was a transient one.
C2_PermanentFailsFast ==
  \A k \in DOMAIN outcomes :
    outcomes[k] = "permanent" =>
      /\ k = Len(outcomes)
      /\ netCalls = k
      /\ Len(delays) = k - 1
      /\ tpc \in {"errorJson", "thrown"}
      /\ \A j \in 1..(k - 1) : outcomes[j] = "transient"

C2_Witness ==
  /\ tpc = "thrown"
  /\ outcomes = <<"transient", "permanent">>
  /\ netCalls = 2
  /\ response.status = 404
  /\ retries = 4

\* C3: transient statuses on attempts 1..k and a 2xx on attempt k+1 make the
\* call return that 2xx response after exactly k+1 network calls.
C3_SuccessAfterTransients ==
  (outcomes # << >> /\ Last(outcomes) = "success"
     /\ AllTransient(SubSeq(outcomes, 1, Len(outcomes) - 1))) =>
    /\ tpc = "returned"
    /\ response.status \in 200..299
    /\ netCalls = Len(outcomes)
    /\ netCalls <= retries

C3_Witness ==
  /\ tpc = "returned"
  /\ retries = 4
  /\ outcomes = <<"transient", "transient", "transient", "success">>
  /\ netCalls = 4
  /\ response.status = 200

\* C4: a fetch that rejects without a status ends the call at that attempt:
\* the rejection itself is thrown, and no delay and no network call follow it,
\* whatever the attempt index.
C4_NetworkFailurePropagates ==
  \A k \in DOMAIN outcomes :
    outcomes[k] = "network" =>
      /\ k = Len(outcomes)
      /\ tpc = "thrown"
      /\ thrown = [message |-> <<"Failed to fetch">>, status |-> 0]
      /\ netCalls = k
      /\ Len(delays) = k - 1

C4_Witness ==
  /\ tpc = "thrown"
  /\ retries = 4
  /\ outcomes = <<"transient", "network">>
  /\ netCalls = 2

\* C5: the delay waited after the transient failure of attempt i (0-based) is
\* at least 2^i * 1000 ms and less than 2^i * 1000 + 1000 ms, so each delay
\* is longer than the one before; a delay is
\* waited only between two attempts, none after the last one; three transient
\* failures and a success take at least 7000 ms.
C5_BackoffDelays ==
  /\ \A k \in DOMAIN delays :
       /\ delays[k] >= 2^(k - 1) * 1000
       /\ delays[k] < 2^(k - 1) * 1000 + 1000
  /\ \A k \in DOMAIN delays : k > 1 => delays[k] > delays[k - 1]
  /\ tpc = "delay" =>
       /\ pendingDelay >= 2^i * 1000
       /\ pendingDelay < 2^i * 1000 + 1000
       /\ i < retries - 1
  /\ tpc # "idle" => Len(delays) = netCalls - 1
  /\ Finished => Len(delays) = Len(outcomes) - 1
  /\ outcomes = <<"transient", "transient", "transient", "success">> =>
       SumSeq(delays) >= 1000 + 2000 + 4000

C5_Witness ==
  /\ outcomes = <<"transient", "transient", "transient", "success">>
  /\ delays = <<1999, 2000, 4999>>
  /\ tpc = "returned"

----------------------------------------------------------------------------
(* Properties of the extraction call and of the click handler *)

SingleCall == variant = "single"

SchemaKeys == {"patientInfo", "diagnosis", "prescriptions", "testResults"}

Pieces(msg) == {msg[k] : k \in DOMAIN msg}

\* the run ended on a 2xx response of the Gemini call with the given body
EndedOn(body) ==
  /\ pc = "idle"
  /\ request.api = "gemini"
  /\ extractResult # NoResult
  /\ response.status \in 200..299
  /\ response.body = body

\* C6: when the text payload of a 2xx response is not valid JSON, the
\* extraction fails and the payload text is, verbatim, part of the error
\* given to the caller or of what the page then holds for display.
C6_RawPayloadInError ==
  EndedOn(JsonBody(Envelope(Str(GarbageText)))) =>
    /\ extractResult.kind = "error"
    /\ \/ GarbageText \in Pieces(extractResult.error.message)
       \/ GarbageText \in Pieces(errorMessage)
       \/ rawText = Str(GarbageText)

\* C7: every result the single-call extraction returns has a defined transcribed text and
\* a structured-data object with all four schema keys.
C7_AllSchemaKeysPresent ==
  (SingleCall /\ extractResult.kind = "ok") =>
    /\ extractResult.extractedText.kind # "undefined"
    /\ extractResult.extractedData.kind = "object"
    /\ SchemaKeys \subseteq DOMAIN extractResult.extractedData.props

\* C8: when the envelope of a 2xx response lacks
\* candidates[0].content.parts[0].text, the extraction fails with the
\* "Invalid response structure" error and returns no result.
C8_MissingTextIsInvalidStructure ==
  (\E e \in MalformedEnvelopes : EndedOn(JsonBody(e))) =>
    /\ extractResult.kind = "error"
    /\ extractResult.error.message =
         <<"Invalid response structure from Gemini API.">>

\* C9: a call of handleProcessClick with no file or with an empty key
\* reports an error message and changes nothing of the network side (no call
\* issued, none in flight more than before, no run started); and no network
\* call is ever made by a run that started without a file or a key.
C9_PreconditionBeforeNetwork ==
  /\ [](netCalls > 0 => (runFile # NoFile /\ runKey # ""))
  /\ [][(DirectCall /\ (file = NoFile \/ apiKey = "")) =>
          /\ errorMessage' # NoMessage
          /\ errorMessage' \in {<<"Please upload a file first.">>,
                                <<"Please enter your Google AI API key.">>}
          /\ netCalls' = netCalls
          /\ inFlight' = inFlight
          /\ activeRuns' = activeRuns
          /\ UNCHANGED <<pc, tpc, request, isLoading>>]_vars

C9_Witness ==
  /\ errorMessage = <<"Please enter your Google AI API key.">>
  /\ file # NoFile
  /\ apiKey = ""
  /\ netCalls = 0
  /\ pc = "idle"

\* C10: a run on a document of zero bytes makes no network call and does not
\* end with a result.
C10_EmptyDocumentRejected ==
  (runFile # NoFile /\ runFile.bytes = << >>) =>
    /\ netCalls = 0
    /\ extractResult.kind # "ok"

----------------------------------------------------------------------------
(* Properties of the page as a whole *)

RunInFlight == pc # "idle"

\* C11: at most one run is outstanding; while a run is outstanding isLoading
\* is true and the submit button is disabled, and a run is outstanding
\* exactly when isLoading is true.
C11_SingleOutstandingRun ==
  /\ activeRuns \in {0, 1}
  /\ RunInFlight <=> activeRuns = 1
  /\ RunInFlight => (isLoading /\ ~ENABLED ClickSubmit)
  /\ isLoading => RunInFlight

\* a run waits out a backoff delay while file and key are both present, so
\* that isLoading alone keeps the button disabled
C11_Witness ==
  /\ pc = "fetchWithRetry"
  /\ tpc = "delay"
  /\ file # NoFile
  /\ apiKey # ""
  /\ apiKey = runKey
  /\ activeRuns = 1

\* the last run has ended, and ended in failure
RunFailed == pc = "idle" /\ runFile # NoFile /\ extractResult.kind # "ok"

\* C12: after a run that ended in failure the page holds no transcribed text
\* and no structured data of that run, and shows no results section.
C12_NoPartialResult ==
  RunFailed =>
    /\ Falsy(rawText)
    /\ Falsy(structuredData)
    /\ ~ResultsShown

TwoStage == variant = "twoStage"

\* the Vision replies that carry a first text annotation, and the text
\* detectTextWithVisionAPI returns for them
AnnotatedReply == JsonBody(VisionReply(Arr(<<Obj([description |-> Str(VisionText)])>>)))
BareAnnotationReply == JsonBody(VisionReply(Arr(<<Obj(<< >>)>>)))

\* C13: in the two-stage page the Gemini call is the second network call of
\* a run and is issued only when the Vision call got a 2xx response with a
\* text annotation; its input is the text stage 1 returned (which is also
\* what the page stores as raw text); a run whose stage 1 failed makes no
\* second call and sets no structured data.
C13_StageTwoAfterStageOne ==
  /\ [](TwoStage => netCalls <= 2)
  /\ []((TwoStage /\ netCalls = 2) =>
          /\ request.api = "gemini"
          /\ request.data = rawText
          /\ outcomes[1] = "success")
  /\ []((TwoStage /\ netCalls <= 1) =>
          /\ request.api = "gemini" => pc \in {"idle", "toBase64"}
          /\ structuredData = Null)
  /\ [][(TwoStage /\ netCalls' = 2 /\ netCalls = 1) =>
          /\ pc = "visionJson"
          /\ response.status \in 200..299
          /\ response.body \in {AnnotatedReply, BareAnnotationReply}
          /\ response.body = AnnotatedReply => request'.data = Str(VisionText)
          /\ response.body = BareAnnotationReply => request'.data = Undefined
          /\ request'.api = "gemini"
          /\ inFlight = 0]_vars

C13_Witness ==
  /\ TwoStage
  /\ pc = "geminiFetch"
  /\ netCalls = 2
  /\ request.data = Str(VisionText)
  /\ rawText = Str(VisionText)

\* the last run has ended
RunEnded == pc = "idle" /\ runFile # NoFile

\* payload texts that are JSON but not of the declared shape, in either
\* version of the page
MismatchTexts == {EmptyObjectText, NoDataText, PartialText}

\* the last run ended on a Gemini payload that does not match the schema
EndedOnMismatch ==
  \E t \in MismatchTexts : EndedOn(JsonBody(Envelope(Str(t))))

\* C14: a run that ended in failure, a payload not matching the schema
\* included, leaves a non-empty error message; no run ends with neither the
\* results section nor an error message on the page.
C14_FailureAlwaysReported ==
  /\ (RunFailed \/ EndedOnMismatch) => errorMessage # NoMessage
  /\ RunEnded => (errorMessage # NoMessage \/ ResultsShown)

----------------------------------------------------------------------------
(* Further properties of fetchWithRetry *)

ServerMessageBody ==
  JsonBody(Obj([error |-> Obj([message |-> Str(ServerMessage)])]))

\* C15: the error thrown for a non-success status that is neither >= 500 nor
\* 429 carries the server's message when the body has one and "Unknown
\* error" for every other body.
C15_PermanentCarriesServerMessage ==
  (tpc = "thrown" /\ outcomes # << >> /\ Last(outcomes) = "permanent") =>
    thrown.message =
      <<"API error: ",
        IF response.body = ServerMessageBody THEN ServerMessage
        ELSE "Unknown error">>

\* C16: at most one attempt of a call is in flight; an attempt is in flight
\* exactly while the call waits for fetch, and when attempt n is in flight
\* the n-1 attempts before it have all been answered and each was followed
\* by a backoff delay that was waited out.
C16_SerialAttempts ==
  /\ inFlight \in {0, 1}
  /\ inFlight = 1 <=> tpc = "fetch"
  /\ tpc = "fetch" =>
       /\ i = netCalls - 1
       /\ Len(outcomes) = netCalls - 1
       /\ Len(delays) = netCalls - 1

C16_Witness ==
  /\ tpc = "fetch"
  /\ inFlight = 1
  /\ netCalls = 3
  /\ outcomes = <<"transient", "transient">>
  /\ Len(delays) = 2

----------------------------------------------------------------------------
(* Termination of a run *)

\* C17: when everything pending eventually settles, every run ends; a run
\* makes at most retries network calls through fetchWithRetry (one per plain
\* fetch in the two-stage page); an ended run is either a success without
\* error message or a failure with one; and whenever no run is in flight
\* isLoading is false and statusMessage is empty.
C17_RunsTerminate ==
  /\ [](netCalls <= IF SingleCall THEN retries ELSE 2)
  /\ [](SingleCall => retries = DefaultRetries)
  /\ [](RunEnded =>
          \/ extractResult.kind = "ok" /\ errorMessage = NoMessage
          \/ extractResult.kind # "ok" /\ errorMessage # NoMessage)
  /\ [](~RunInFlight => (~isLoading /\ statusMessage = ""))
  /\ (RunInFlight \/ isLoading) ~> (RunEnded /\ ~isLoading)

C17_Witness ==
  /\ RunEnded
  /\ SingleCall
  /\ outcomes = <<"transient", "transient", "transient", "transient">>
  /\ netCalls = DefaultRetries
  /\ extractResult.kind = "error"
  /\ ~isLoading
  /\ statusMessage = ""

====
